---- MODULE Spec2Model ----
(***************************************************************************)
(* sqlx-tx: the transactional executor of src/tx.go.                       *)
(*                                                                         *)
(* src/tx.go holds two versions of the package: the functional-options     *)
(* version (lines 1-101) and the config-pointer version (lines 103-169).   *)
(* Both share the begin / DEALLOCATE ALL / deferred-resolution body.  One  *)
(* call of the executor is modelled, split at the calls it makes on the    *)
(* database handle, the transaction handle and the unit of work.           *)
(* Spec is that one call; ConcSpec is several callers running the call on  *)
(* one database handle.                                                    *)
(***************************************************************************)
EXTENDS Integers, Sequences, FiniteSets, TLC

(* ------------------------------ bounds --------------------------------- *)

\* results of type T are 0..MaxValue; 0 is the zero value of T
MaxValue == 2
\* isolation levels are 0..MaxLevel; 0 is sql.LevelDefault
MaxLevel == 1
\* the longest list of ConfigOption values a caller passes
MaxOptions == 2
\* the number of callers invoking the executor concurrently on one handle
NumCallers == 2

Values == 0..MaxValue
Zero == 0
Levels == 0..MaxLevel
Callers == 1..NumCallers

(* ------------------------------ errors --------------------------------- *)
(* An error value is the chain of its layers, outermost first; nil is the  *)
(* empty chain.  A layer is the format text of one fmt.Errorf call, with   *)
(* the Error() text of every operand formatted by %v kept in "shown"; the  *)
(* operand formatted by %w is the rest of the chain.                       *)

NilErr == <<>>

\* errors.New(msg), or an error handed back by the driver
NewError(msg) == << [msg |-> msg, shown |-> <<>>] >>

\* err.Error(): the text, as the list of its pieces
RECURSIVE ErrorText(_)
ErrorText(e) ==
    IF e = NilErr THEN <<>>
    ELSE <<Head(e).msg>> \o Head(e).shown \o ErrorText(Tail(e))

\* errors.Unwrap(err)
Unwrap(e) == IF Len(e) <= 1 THEN NilErr ELSE Tail(e)

\* errors.Is(err, target)
RECURSIVE Is(_, _)
Is(e, target) ==
    IF e = NilErr THEN FALSE
    ELSE IF e = target THEN TRUE
    ELSE Is(Unwrap(e), target)

\* fmt.Errorf(text + ": %w", cause)
ErrorfW(text, cause) == << [msg |-> text, shown |-> <<>>] >> \o cause

\* fmt.Errorf(text + ": %v (original error: %w)", shownErr, cause)
ErrorfVW(text, shownErr, cause) ==
    << [msg |-> text, shown |-> ErrorText(shownErr)] >> \o cause

BeginFailedText == "failed to begin transaction"
DeallocFailedText == "failed to deallocate prepared statements"
RollbackFailedText == "transaction rollback failed"
CommitFailedText == "failed to commit transaction"

\* what the driver can answer to begin, exec, commit and rollback
DriverErrs == { NewError("driver: bad connection"), NewError("context canceled") }
\* what a unit of work can return as its error: its own errors, or an error
\* of the driver handed on as it is
UnitErrs == { NewError("insufficient funds"), NewError("test error"),
              NewError("context canceled") }

(* ------------------------------ panics --------------------------------- *)

NoPanic == "no panic"
NilPayload == "nil"
PanicNilError == "runtime.PanicNilError"
\* the values a unit of work can hand to panic()
Payloads == { "boom", "test panic", NilPayload }

(* --------------------------- configuration ----------------------------- *)

\* the zero sql.TxOptions
ZeroTxOptions == [Isolation |-> 0, ReadOnly |-> FALSE]
TxOptionsValues == [Isolation : Levels, ReadOnly : BOOLEAN]

\* a *sql.TxOptions is nil, the caller's object, or one the options allocate
NilRef == "nil"
CallerRef == "caller"
FreshRef == "fresh"

\* &Config{}
ZeroConfig == [TxOptions |-> NilRef, DeallocateAll |-> FALSE]

VARIABLES
    version,     \* which version of the package: "options" or "config"
    panicnil,    \* build setting: TRUE when recover() yields nil for panic(nil)
    pc,          \* position of the call
    entry,       \* the exported function the caller invoked
    ctx,         \* the context ExecuteContext received
    args,        \* the options or the Config pointer the caller passed
    callerOpts,  \* the caller's own sql.TxOptions object
    freshOpts,   \* the sql.TxOptions object allocated by an option
    config,      \* the Config the call works with
    tx,          \* the transaction handle, 0 when none
    result,      \* named result "result"
    err,         \* named result "err"
    panicking,   \* the panic in flight, or NoPanic
    unit,        \* how the unit of work exited
    ops,         \* the operations issued so far, in order
    ret          \* what was delivered to the caller

\* the state of concurrent calls on one database handle
VARIABLES
    calls,       \* for each caller, the local variables of its call
    db           \* the database handle: the next transaction handle it creates

\* the variables of the single call
callVars == << version, panicnil, pc, entry, ctx, args, callerOpts, freshOpts,
               config, tx, result, err, panicking, unit, ops, ret >>

vars == << version, panicnil, pc, entry, ctx, args, callerOpts, freshOpts, config,
           tx, result, err, panicking, unit, ops, ret, calls, db >>

NoRet == [kind |-> "none", result |-> Zero, err |-> NilErr, payload |-> NoPanic]
Returned(r, e) == [kind |-> "return", result |-> r, err |-> e, payload |-> NoPanic]
Panicked(p) == [kind |-> "panic", result |-> Zero, err |-> NilErr, payload |-> p]

NoUnit == [kind |-> "none", result |-> Zero, err |-> NilErr, payload |-> NoPanic]

\* the local variables of a call not yet made
IdleCall == [pc |-> "idle", cleanup |-> FALSE, tx |-> 0, result |-> Zero,
             err |-> NilErr, panicking |-> NoPanic, unit |-> NoUnit,
             ops |-> <<>>, ret |-> NoRet]
NoCalls == [c \in Callers |-> IdleCall]
\* a database handle that has begun no transaction
NoTx == [next |-> 1]

\* one operation issued on the database or transaction handle, or the unit
\* of work: its name, the context and options it was given (lists of at most
\* one element, empty when it takes none or nil) and the error it answered
Op(name, c, o, out) == [op |-> name, ctx |-> c, opts |-> o, out |-> out]

\* the value behind a *sql.TxOptions, as a list: empty for nil
Deref(ref, caller, fresh) ==
    IF ref = NilRef THEN <<>>
    ELSE IF ref = CallerRef THEN <<caller>>
    ELSE <<fresh>>

(* ------------------------- functional options -------------------------- *)
(* A ConfigOption is a closure over its argument; it acts on the Config    *)
(* and, through Config.TxOptions, on the sql.TxOptions object pointed to.  *)
(* The heap h holds the Config and the two sql.TxOptions objects.          *)

OptDeallocateAll == [name |-> "WithDeallocateAll", ref |-> NilRef, level |-> 0]
OptTxOptions(r) == [name |-> "WithTxOptions", ref |-> r, level |-> 0]
OptIsolationLevel(l) == [name |-> "WithIsolationLevel", ref |-> NilRef, level |-> l]
OptReadOnly == [name |-> "WithReadOnly", ref |-> NilRef, level |-> 0]

ConfigOptions ==
    {OptDeallocateAll, OptReadOnly}
        \cup {OptTxOptions(r) : r \in {NilRef, CallerRef}}
        \cup {OptIsolationLevel(l) : l \in Levels}

OptionLists == UNION {[1..n -> ConfigOptions] : n \in 0..MaxOptions}

WithDeallocateAll(h) == [h EXCEPT !.config.DeallocateAll = TRUE]

WithTxOptions(h, opts) == [h EXCEPT !.config.TxOptions = opts]

\* if c.TxOptions == nil { c.TxOptions = &sql.TxOptions{} }
EnsureTxOptions(h) ==
    IF h.config.TxOptions = NilRef
    THEN [h EXCEPT !.config.TxOptions = FreshRef, !.fresh = ZeroTxOptions]
    ELSE h

WithIsolationLevel(h, level) ==
    LET g == EnsureTxOptions(h) IN
    IF g.config.TxOptions = CallerRef
    THEN [g EXCEPT !.caller.Isolation = level]
    ELSE [g EXCEPT !.fresh.Isolation = level]

\* WithReadOnly replacing the options instead of setting the one field
WithReadOnlyReplaces(h) ==
    [h EXCEPT !.config.TxOptions = FreshRef,
              !.fresh = [Isolation |-> 0, ReadOnly |-> TRUE]]

WithReadOnly(h) ==
    LET g == EnsureTxOptions(h) IN
    IF g.config.TxOptions = CallerRef
    THEN [g EXCEPT !.caller.ReadOnly = TRUE]
    ELSE [g EXCEPT !.fresh.ReadOnly = TRUE]

ApplyOption(h, option) ==
    CASE option.name = "WithDeallocateAll" -> WithDeallocateAll(h)
      [] option.name = "WithTxOptions" -> WithTxOptions(h, option.ref)
      [] option.name = "WithIsolationLevel" -> WithIsolationLevel(h, option.level)
      [] OTHER -> WithReadOnly(h)

\* config := &Config{}; for _, option := range options { option(config) }
RECURSIVE ApplyOptions(_, _)
ApplyOptions(h, options) ==
    IF options = <<>> THEN h
    ELSE ApplyOptions(ApplyOption(h, Head(options)), Tail(options))

(* ------------------------------- Init ---------------------------------- *)

Init ==
    /\ version \in {"options", "config"}
    /\ panicnil \in BOOLEAN
    /\ callerOpts \in TxOptionsValues
    /\ pc = "idle"
    /\ entry = "none"
    /\ ctx = "none"
    /\ args = <<>>
    /\ freshOpts = ZeroTxOptions
    /\ config = ZeroConfig
    /\ tx = 0
    /\ result = Zero
    /\ err = NilErr
    /\ panicking = NoPanic
    /\ unit = NoUnit
    /\ ops = <<>>
    /\ ret = NoRet
    /\ calls = NoCalls
    /\ db = NoTx

(* --------------------------- entry points ------------------------------ *)

\* the body of ExecuteContext up to BeginTxx, functional-options version
EnterOptions(name, c, options) ==
    LET h == ApplyOptions([config |-> ZeroConfig, caller |-> callerOpts,
                           fresh |-> ZeroTxOptions], options) IN
    /\ pc = "idle"
    /\ version = "options"
    /\ entry' = name
    /\ ctx' = c
    /\ args' = options
    /\ config' = h.config
    /\ callerOpts' = h.caller
    /\ freshOpts' = h.fresh
    /\ pc' = "begin"
    /\ UNCHANGED << calls, db, version, panicnil, tx, result, err, panicking, unit,
                    ops, ret >>

\* the body of ExecuteContext up to BeginTxx, config-pointer version;
\* cfg is the list holding the caller's Config, empty for a nil pointer
EnterConfig(name, c, cfg) ==
    /\ pc = "idle"
    /\ version = "config"
    /\ entry' = name
    /\ ctx' = c
    /\ args' = cfg
    /\ config' = IF cfg = <<>> THEN ZeroConfig ELSE cfg[1]
    /\ pc' = "begin"
    /\ UNCHANGED << calls, db, version, panicnil, callerOpts, freshOpts, tx, result, err,
                    panicking, unit, ops, ret >>

\* the Config values a caller can build
CallerConfigs == [TxOptions : {NilRef, CallerRef}, DeallocateAll : BOOLEAN]

ExecuteOptions == EnterOptions("Execute", "Background", <<>>)

ExecuteContextOptions ==
    \E options \in OptionLists : EnterOptions("ExecuteContext", "ctx", options)

\* ExecuteConfig passing a Config that asks for the cleanup statement
ExecuteConfigCleans ==
    EnterConfig("Execute", "Background",
                << [TxOptions |-> NilRef, DeallocateAll |-> TRUE] >>)

ExecuteConfig == EnterConfig("Execute", "Background", <<>>)

ExecuteWithConfig ==
    \E cfg \in {<<>>} \cup {<<c>> : c \in CallerConfigs} :
        EnterConfig("ExecuteWithConfig", "Background", cfg)

ExecuteContextConfig ==
    \E cfg \in {<<>>} \cup {<<c>> : c \in CallerConfigs} :
        EnterConfig("ExecuteContext", "ctx", cfg)

(* ------------------------- begin and cleanup --------------------------- *)

\* what an operation on the driver answers: nil or one of its errors
Answers == {NilErr} \cup DriverErrs

\* BeginFailed handing the driver's error on without the begin-failed layer
BeginFailedUnwrapped(beginErr) == beginErr

\* fmt.Errorf("failed to begin transaction: %w", err)
BeginFailed(beginErr) == ErrorfW(BeginFailedText, beginErr)

\* DeallocFailed formatting the cause with %v instead of %w
DeallocFailedShown(deallocErr) == ErrorfVW(DeallocFailedText, deallocErr, NilErr)

\* fmt.Errorf("failed to deallocate prepared statements: %w", deallocErr)
DeallocFailed(deallocErr) == ErrorfW(DeallocFailedText, deallocErr)

\* AfterDeallocFailure reporting a failed rollback as the deferred function does
AfterDeallocFailureReportsRollback(deallocErr, rollbackErr) ==
    IF rollbackErr # NilErr
    THEN ErrorfVW(RollbackFailedText, rollbackErr, DeallocFailed(deallocErr))
    ELSE DeallocFailed(deallocErr)

\* _ = tx.Rollback(); return result, fmt.Errorf(...): the error returned when
\* the cleanup statement failed with deallocErr and the rollback answered
\* rollbackErr
AfterDeallocFailure(deallocErr, rollbackErr) == DeallocFailed(deallocErr)

\* Begin through db.Beginx(), which begins under context.Background()
BeginBackground ==
    /\ pc = "begin"
    /\ \E beginErr \in Answers :
        /\ ops' = Append(ops, Op("Begin", <<"Background">>,
                                 Deref(config.TxOptions, callerOpts, freshOpts),
                                 beginErr))
        /\ IF beginErr # NilErr
           THEN /\ err' = BeginFailed(beginErr)
                /\ tx' = tx
                /\ ret' = Returned(result, err')
                /\ pc' = "done"
           ELSE /\ err' = NilErr
                /\ tx' = 1
                /\ ret' = ret
                /\ pc' = IF config.DeallocateAll THEN "dealloc" ELSE "run"
    /\ UNCHANGED << calls, db, version, panicnil, entry, ctx, args, callerOpts,
                    freshOpts, config,
                    result, panicking, unit >>

\* tx, err := db.BeginTxx(ctx, config.TxOptions), and the return when it fails
Begin ==
    /\ pc = "begin"
    /\ \E beginErr \in Answers :
        /\ ops' = Append(ops, Op("Begin", <<ctx>>,
                                 Deref(config.TxOptions, callerOpts, freshOpts),
                                 beginErr))
        /\ IF beginErr # NilErr
           THEN /\ err' = BeginFailed(beginErr)
                /\ tx' = tx
                /\ ret' = Returned(result, err')
                /\ pc' = "done"
           ELSE /\ err' = NilErr
                /\ tx' = 1
                /\ ret' = ret
                /\ pc' = IF config.DeallocateAll THEN "dealloc" ELSE "run"
    /\ UNCHANGED << calls, db, version, panicnil, entry, ctx, args, callerOpts,
                    freshOpts, config,
                    result, panicking, unit >>

\* DeallocateAll without the return after the failed cleanup statement
DeallocateAllProceeds ==
    /\ pc = "dealloc"
    /\ \E deallocErr \in Answers :
        IF deallocErr # NilErr
        THEN \E rollbackErr \in Answers :
            ops' = ops \o << Op("DeallocateAll", <<ctx>>, <<>>, deallocErr),
                             Op("Rollback", <<>>, <<>>, rollbackErr) >>
        ELSE ops' = Append(ops, Op("DeallocateAll", <<ctx>>, <<>>, deallocErr))
    /\ pc' = "run"
    /\ UNCHANGED << calls, db, version, panicnil, entry, ctx, args, callerOpts, freshOpts,
                    config, tx, result, err, panicking, unit, ret >>

\* tx.ExecContext(ctx, "DEALLOCATE ALL"); on failure _ = tx.Rollback() and return
DeallocateAll ==
    /\ pc = "dealloc"
    /\ \E deallocErr \in Answers :
        IF deallocErr # NilErr
        THEN \E rollbackErr \in Answers :
            /\ ops' = ops \o << Op("DeallocateAll", <<ctx>>, <<>>, deallocErr),
                                Op("Rollback", <<>>, <<>>, rollbackErr) >>
            /\ err' = AfterDeallocFailure(deallocErr, rollbackErr)
            /\ ret' = Returned(result, err')
            /\ pc' = "done"
        ELSE
            /\ ops' = Append(ops, Op("DeallocateAll", <<ctx>>, <<>>, deallocErr))
            /\ err' = err
            /\ ret' = ret
            /\ pc' = "run"
    /\ UNCHANGED << calls, db, version, panicnil, entry, ctx, args, callerOpts, freshOpts,
                    config, tx, result, panicking, unit >>

(* --------------------------- unit of work ------------------------------ *)

\* the value panic(p) raises: a nil payload is raised as a
\* *runtime.PanicNilError unless the build keeps the old panic(nil)
Raised(p) == IF p = NilPayload /\ ~panicnil THEN PanicNilError ELSE p

\* TxFuncReturns with the value dropped: _, err = txFunc(tx)
TxFuncReturnsErrOnly ==
    /\ pc = "run"
    /\ \E v \in Values, e \in {NilErr} \cup UnitErrs :
        /\ result' = result
        /\ err' = e
        /\ unit' = [kind |-> "return", result |-> v, err |-> e, payload |-> NoPanic]
    /\ ops' = Append(ops, Op("TxFunc", <<>>, <<>>, NilErr))
    /\ pc' = "deferred"
    /\ UNCHANGED << calls, db, version, panicnil, entry, ctx, args, callerOpts,
                    freshOpts, config,
                    tx, panicking, ret >>

\* result, err = txFunc(tx), the unit of work returning
TxFuncReturns ==
    /\ pc = "run"
    /\ \E v \in Values, e \in {NilErr} \cup UnitErrs :
        /\ result' = v
        /\ err' = e
        /\ unit' = [kind |-> "return", result |-> v, err |-> e, payload |-> NoPanic]
    /\ ops' = Append(ops, Op("TxFunc", <<>>, <<>>, NilErr))
    /\ pc' = "deferred"
    /\ UNCHANGED << calls, db, version, panicnil, entry, ctx, args, callerOpts,
                    freshOpts, config,
                    tx, panicking, ret >>

\* txFunc(tx) panicking: result and err are not assigned
TxFuncPanics ==
    /\ pc = "run"
    /\ \E p \in Payloads :
        /\ panicking' = Raised(p)
        /\ unit' = [kind |-> "panic", result |-> Zero, err |-> NilErr,
                    payload |-> Raised(p)]
    /\ ops' = Append(ops, Op("TxFunc", <<>>, <<>>, NilErr))
    /\ pc' = "deferred"
    /\ UNCHANGED << calls, db, version, panicnil, entry, ctx, args, callerOpts,
                    freshOpts, config,
                    tx, result, err, ret >>

(* ------------------------ deferred resolution -------------------------- *)

\* p := recover(): the payload of the panic in flight, nil when there is none
Recover == IF panicking = NoPanic THEN NilPayload ELSE panicking

\* AfterRollback wrapping the original error even when the rollback succeeded
AfterRollbackAlwaysWraps(rollbackErr, e) ==
    ErrorfVW(RollbackFailedText, rollbackErr, e)

\* AfterRollback reporting the rollback failure in place of the original error
AfterRollbackLosesOriginal(rollbackErr, e) ==
    IF rollbackErr # NilErr
    THEN ErrorfW(RollbackFailedText, rollbackErr)
    ELSE e

\* the err left by the rollback arm of the deferred function
AfterRollback(rollbackErr, e) ==
    IF rollbackErr # NilErr
    THEN ErrorfVW(RollbackFailedText, rollbackErr, e)
    ELSE e

\* AfterCommit handing the driver's error on without the commit-failed layer
AfterCommitUnwrapped(commitErr) == commitErr

\* AfterCommit with the Commit's answer not stored in the returned err
AfterCommitSwallows(commitErr) == NilErr

\* the err left by the commit arm of the deferred function
AfterCommit(commitErr) ==
    IF commitErr # NilErr
    THEN ErrorfW(CommitFailedText, commitErr)
    ELSE commitErr

\* DeferredPanic re-panicking without the rollback
DeferredPanicNoRollback ==
    /\ pc = "deferred"
    /\ Recover # NilPayload
    /\ panicking' = Recover
    /\ ret' = Panicked(Recover)
    /\ pc' = "done"
    /\ UNCHANGED << calls, db, version, panicnil, entry, ctx, args, callerOpts,
                    freshOpts, config,
                    tx, result, err, unit, ops >>

\* if p := recover(); p != nil { _ = tx.Rollback(); panic(p) }
DeferredPanic ==
    /\ pc = "deferred"
    /\ Recover # NilPayload
    /\ \E rollbackErr \in Answers :
        ops' = Append(ops, Op("Rollback", <<>>, <<>>, rollbackErr))
    /\ panicking' = Recover
    /\ ret' = Panicked(Recover)
    /\ pc' = "done"
    /\ UNCHANGED << calls, db, version, panicnil, entry, ctx, args, callerOpts,
                    freshOpts, config,
                    tx, result, err, unit >>

\* else if err != nil { rollbackErr := tx.Rollback(); ... }, then the return
DeferredRollback ==
    /\ pc = "deferred"
    /\ Recover = NilPayload
    /\ err # NilErr
    /\ \E rollbackErr \in Answers :
        /\ ops' = Append(ops, Op("Rollback", <<>>, <<>>, rollbackErr))
        /\ err' = AfterRollback(rollbackErr, err)
    /\ panicking' = NoPanic
    /\ ret' = Returned(result, err')
    /\ pc' = "done"
    /\ UNCHANGED << calls, db, version, panicnil, entry, ctx, args, callerOpts,
                    freshOpts, config,
                    tx, result, unit >>

\* else { err = tx.Commit(); ... }, then the return
DeferredCommit ==
    /\ pc = "deferred"
    /\ Recover = NilPayload
    /\ err = NilErr
    /\ \E commitErr \in Answers :
        /\ ops' = Append(ops, Op("Commit", <<>>, <<>>, commitErr))
        /\ err' = AfterCommit(commitErr)
    /\ panicking' = NoPanic
    /\ ret' = Returned(result, err')
    /\ pc' = "done"
    /\ UNCHANGED << calls, db, version, panicnil, entry, ctx, args, callerOpts,
                    freshOpts, config,
                    tx, result, unit >>

(* --------------------------- specification ----------------------------- *)

Next ==
    \/ ExecuteOptions
    \/ ExecuteContextOptions
    \/ ExecuteConfig
    \/ ExecuteWithConfig
    \/ ExecuteContextConfig
    \/ Begin
    \/ DeallocateAll
    \/ TxFuncReturns
    \/ TxFuncPanics
    \/ DeferredPanic
    \/ DeferredRollback
    \/ DeferredCommit

Spec == Init /\ [][Next]_vars

(* ------------------------- reading the log ----------------------------- *)

\* the positions of the log at which operation name was issued
Issued(name) == {i \in DOMAIN ops : ops[i].op = name}
Count(name) == Cardinality(Issued(name))
\* the positions at which operation name was issued and failed
Failed(name) == {i \in Issued(name) : ops[i].out # NilErr}
Succeeded(name) == {i \in Issued(name) : ops[i].out = NilErr}

Done == pc = "done"
UnitReturned == unit.kind = "return"
UnitPanicked == unit.kind = "panic"

(* ------------------------------ claims --------------------------------- *)

\* C1: in every call whose begin succeeded, at most one of Commit and Rollback
\* has been attempted at any time, and exactly one of them, exactly once,
\* when control has left the call, on every exit path (return or panic).
C1_ResolvedExactlyOnce ==
    /\ Count("Commit") + Count("Rollback") <= 1
    /\ (Done /\ Succeeded("Begin") # {}) => Count("Commit") + Count("Rollback") = 1

\* C1 witness: the unit of work panicked, the rollback was attempted and
\* failed, and the panic has left the call.
C1_Witness ==
    /\ Done
    /\ ret.kind = "panic"
    /\ Succeeded("Begin") # {}
    /\ Failed("Rollback") # {}

\* C2 as stated: a unit of work that returned (v, nil) ends in exactly one
\* Commit issued after it, no Rollback, and the return of (v, nil).
C2_CommitReturnsValue ==
    (Done /\ UnitReturned /\ unit.err = NilErr) =>
        /\ Count("Commit") = 1
        /\ Count("Rollback") = 0
        /\ \A i \in Issued("Commit") : \E j \in Issued("TxFunc") : j < i
        /\ ret = Returned(unit.result, NilErr)

\* C2 amended: a unit of work that returned (v, nil) ends in exactly one
\* Commit issued after it and no Rollback; Commit is never issued before the
\* unit of work has returned; when that Commit succeeds the call returns
\* (v, nil), and when it fails the returned error is not nil.
C2_CommitThenValueIfCommitted ==
    /\ \A i \in Issued("Commit") : \E j \in Issued("TxFunc") : j < i
    /\ (Done /\ UnitReturned /\ unit.err = NilErr) =>
        /\ Count("Commit") = 1
        /\ Count("Rollback") = 0
        /\ ret.kind = "return"
        /\ Succeeded("Commit") # {} => ret = Returned(unit.result, NilErr)
        /\ Failed("Commit") # {} => ret.err # NilErr

\* C2 witness: the unit of work returned a non-zero value and nil, the Commit
\* succeeded and the call returned.
C2_Witness ==
    /\ Done
    /\ UnitReturned /\ unit.err = NilErr /\ unit.result # Zero
    /\ Succeeded("Commit") # {}
    /\ ret.kind = "return"

\* C3: a unit of work that returned a non-nil error e ends in exactly one
\* Rollback and no Commit, and when that Rollback succeeded the returned
\* error is e itself.
C3_RollbackReturnsError ==
    (Done /\ UnitReturned /\ unit.err # NilErr) =>
        /\ Count("Rollback") = 1
        /\ Count("Commit") = 0
        /\ ret.kind = "return"
        /\ Succeeded("Rollback") # {} => ret.err = unit.err

\* C3 witness: the unit of work returned an error, the Rollback succeeded and
\* the call returned.
C3_Witness ==
    /\ Done
    /\ UnitReturned /\ unit.err # NilErr
    /\ Succeeded("Rollback") # {}
    /\ ret.kind = "return"

\* C4 as stated: every return with a non-nil error carries the zero value of
\* T as its result.
C4_ZeroResultOnError ==
    (ret.kind = "return" /\ ret.err # NilErr) => ret.result = Zero

\* C5 as stated: a unit of work that panicked with payload p ends in exactly
\* one Rollback, no Commit, and the same payload p raised to the caller; the
\* call does not return.
C5_PanicRollsBackAndRepanics ==
    (Done /\ UnitPanicked) =>
        /\ Count("Rollback") = 1
        /\ Count("Commit") = 0
        /\ ret = Panicked(unit.payload)

\* C6: when begin failed, begin is the only operation issued (no cleanup
\* statement, no unit of work, no Commit, no Rollback) and the call has
\* returned the zero result with an error whose outer layer is the
\* begin-failed text and whose cause is the error begin answered.
C6_BeginFailureStops ==
    \A i \in Failed("Begin") :
        /\ ops = << ops[i] >>
        /\ unit = NoUnit
        /\ Done
        /\ ret.kind = "return"
        /\ ret.result = Zero
        /\ Head(ret.err).msg = BeginFailedText
        /\ Unwrap(ret.err) = ops[i].out

\* C6 witness: begin failed and the call returned.
C6_Witness == Done /\ Failed("Begin") # {} /\ ret.kind = "return"

\* C7: when the cleanup statement failed, exactly one Rollback was attempted,
\* the unit of work was not invoked, no Commit was attempted, and the call
\* has returned the zero result with the cleanup-failed error, which carries
\* the cleanup error as its cause and nothing of the Rollback's answer.
C7_CleanupFailureRollsBack ==
    \A i \in Failed("DeallocateAll") :
        /\ config.DeallocateAll
        /\ Done
        /\ Count("Rollback") = 1
        /\ Count("TxFunc") = 0
        /\ Count("Commit") = 0
        /\ unit = NoUnit
        /\ ret.kind = "return"
        /\ ret.result = Zero
        /\ ret.err = << [msg |-> DeallocFailedText, shown |-> <<>>] >> \o ops[i].out

\* C7 witness: the cleanup statement failed and the Rollback that followed
\* failed too.
C7_Witness ==
    /\ Done
    /\ Failed("DeallocateAll") # {}
    /\ Failed("Rollback") # {}

\* C8: when the unit of work returned no error and Commit failed, the
\* returned error has the commit-failed text as its outer layer and the
\* Commit's error as its cause, and neither a Rollback nor a second Commit
\* was attempted.
C8_CommitFailureWrapped ==
    (Done /\ UnitReturned /\ unit.err = NilErr) =>
        \A i \in Failed("Commit") :
            /\ ret.kind = "return"
            /\ Head(ret.err).msg = CommitFailedText
            /\ Unwrap(ret.err) = ops[i].out
            /\ Is(ret.err, ops[i].out)
            /\ Count("Rollback") = 0
            /\ Count("Commit") = 1
            /\ i = Len(ops)

\* C8 witness: the unit of work returned a value and nil, and Commit failed.
C8_Witness ==
    /\ Done
    /\ UnitReturned /\ unit.err = NilErr
    /\ Failed("Commit") # {}

\* C9: when the unit of work returned error e and the Rollback failed with r,
\* the returned error has the rollback-failed text and the text of r in its
\* outer layer and e as its unwrappable cause; it differs from e and from r,
\* and the Rollback was attempted once.
C9_DoubleFailureCombined ==
    (Done /\ UnitReturned /\ unit.err # NilErr) =>
        \A i \in Failed("Rollback") :
            /\ ret.kind = "return"
            /\ Head(ret.err).msg = RollbackFailedText
            /\ Head(ret.err).shown = ErrorText(ops[i].out)
            /\ Unwrap(ret.err) = unit.err
            /\ Is(ret.err, unit.err)
            /\ ret.err # unit.err
            /\ ret.err # ops[i].out
            /\ Count("Rollback") = 1

\* C9 witness: the unit of work returned an error and the Rollback failed
\* with another error.
C9_Witness ==
    /\ Done
    /\ UnitReturned /\ unit.err # NilErr
    /\ \E i \in Failed("Rollback") : ops[i].out # unit.err

\* the text the executor puts before the cause of a failed phase
PhaseText(name) ==
    CASE name = "Begin" -> BeginFailedText
      [] name = "DeallocateAll" -> DeallocFailedText
      [] name = "Commit" -> CommitFailedText
      [] OTHER -> RollbackFailedText

Phases == {"Begin", "DeallocateAll", "Commit", "Rollback"}

\* the layers of an error
Layers(e) == {e[k] : k \in DOMAIN e}

\* C10 as stated: once the call is over, every failure of begin, cleanup,
\* commit or rollback is reported: the call returned an error with a layer
\* naming the failed phase, from which the failure's cause can be unwrapped.
C10_EveryFailureUnwrappable ==
    Done =>
        \A name \in Phases : \A i \in Failed(name) :
            /\ ret.kind = "return"
            /\ \E l \in Layers(ret.err) : l.msg = PhaseText(name)
            /\ Is(ret.err, ops[i].out)

\* C10 amended: a failure of begin, cleanup or commit is reported by an error
\* whose outer layer names the phase and whose cause, by unwrapping, is the
\* failure's error.  A failed Rollback after a unit-of-work error is named in
\* the outer layer together with its text, while the unwrappable cause is the
\* unit of work's error; a failed Rollback after a failed cleanup or after a
\* panic leaves no trace in what the caller receives.
C10_FailuresReportedByPhase ==
    Done =>
        /\ \A name \in Phases \ {"Rollback"} : \A i \in Failed(name) :
            /\ ret.kind = "return"
            /\ Head(ret.err).msg = PhaseText(name)
            /\ Unwrap(ret.err) = ops[i].out
            /\ Is(ret.err, ops[i].out)
        /\ \A i \in Failed("Rollback") :
            CASE Failed("DeallocateAll") # {} ->
                    /\ ret.kind = "return"
                    /\ \A l \in Layers(ret.err) :
                          l.msg # RollbackFailedText /\ l.shown = <<>>
                    /\ \A j \in Failed("DeallocateAll") :
                          Unwrap(ret.err) = ops[j].out
              [] ret.kind = "panic" -> ret = Panicked(unit.payload)
              [] OTHER ->
                    /\ ret.kind = "return"
                    /\ Head(ret.err).msg = RollbackFailedText
                    /\ Head(ret.err).shown = ErrorText(ops[i].out)
                    /\ Unwrap(ret.err) = unit.err
                    /\ Is(ret.err, ops[i].out) <=> Is(unit.err, ops[i].out)

\* C10 witness: the cleanup statement failed and the call returned its error.
C10_Witness ==
    /\ Done
    /\ ret.kind = "return"
    /\ \E i \in Failed("DeallocateAll") : Is(ret.err, ops[i].out)

\* whether the caller set the cleanup flag: WithDeallocateAll() among the
\* options, or DeallocateAll in the Config passed
FlagSet ==
    IF version = "options"
    THEN \E k \in DOMAIN args : args[k].name = "WithDeallocateAll"
    ELSE args # <<>> /\ args[1].DeallocateAll

\* the names of the operations issued, in order
OpNames == [i \in DOMAIN ops |-> ops[i].op]

C12_ExecuteIssuesCleanup ==
    (entry = "Execute" /\ Done /\ Succeeded("Begin") # {}) =>
        /\ Len(ops) >= 2
        /\ ops[2].op = "DeallocateAll"
        /\ Succeeded("DeallocateAll") # {} =>
              OpNames = << "Begin", "DeallocateAll", "TxFunc",
                           IF UnitReturned /\ unit.err = NilErr
                           THEN "Commit" ELSE "Rollback" >>

\* C15: within one call begin is attempted exactly once, the cleanup
\* statement at most once and the unit of work at most once; the unit of work
\* is invoked only after a begin that succeeded and, when the cleanup flag is
\* set, after a cleanup statement that succeeded; an operation that failed is
\* not issued again.
C15_OnceAndNoRetry ==
    /\ Count("Begin") <= 1
    /\ pc \notin {"idle", "begin"} => Count("Begin") = 1
    /\ Count("DeallocateAll") <= 1
    /\ Count("TxFunc") <= 1
    /\ \A j \in Issued("TxFunc") :
          /\ \E i \in Succeeded("Begin") : i < j
          /\ FlagSet => \E i \in Succeeded("DeallocateAll") : i < j
    /\ \A name \in Phases : \A i \in Failed(name) :
          \A k \in Issued(name) : k <= i

\* C15 witness: the flag was set, the unit of work ran once and the Commit
\* that followed failed and was the last operation.
C15_Witness ==
    /\ Done
    /\ FlagSet
    /\ Count("TxFunc") = 1
    /\ Failed("Commit") # {}

\* C16 as stated: no step of a call changes the sql.TxOptions object the
\* caller owns.
C16_CallerOptionsUntouched == [][callerOpts' = callerOpts]_vars

\* C17: whenever the call has returned, its error is nil exactly when a
\* Commit was attempted in the call and succeeded.
C17_NilErrorIffCommitted ==
    ret.kind = "return" => (ret.err = NilErr <=> Succeeded("Commit") # {})

\* C17 witness: a call with the cleanup flag set returned a nil error after a
\* Commit that succeeded.
C17_Witness ==
    /\ ret.kind = "return"
    /\ ret.err = NilErr
    /\ Succeeded("Commit") # {}
    /\ FlagSet

\* the positions of the option list at which option name was given
Given(name) == {k \in DOMAIN args : args[k].name = name}
\* the largest element of a non-empty set of positions, 0 for the empty set
Last(S) == IF S = {} THEN 0 ELSE CHOOSE k \in S : \A j \in S : j <= k
\* the options begin received, as a list: empty for nil
BeginOpts == ops[1].opts

\* the options in effect at begin: nil options are the driver's defaults
EffectiveOpts == IF BeginOpts = <<>> THEN ZeroTxOptions ELSE BeginOpts[1]

\* C18 as stated: begin receives nil options when no option or a nil config
\* was given, and every read-only setting and every isolation level the
\* caller gave (a single level) is in effect at begin, wherever in the option
\* list it stands.
C18_SelectedSettingsInEffect ==
    Issued("Begin") # {} =>
        /\ args = <<>> => BeginOpts = <<>>
        /\ version = "options" =>
            /\ Given("WithReadOnly") # {} => EffectiveOpts.ReadOnly
            /\ \A k \in Given("WithIsolationLevel") :
                  Given("WithIsolationLevel") = {k} =>
                      EffectiveOpts.Isolation = args[k].level

\* C18 amended: begin receives what the options yield applied in the order
\* given.  With no option or a nil config it receives nil options; a Config's
\* TxOptions is passed on as it is; WithTxOptions(opts) replaces whatever was
\* set before it; an isolation level is in effect when no WithTxOptions and
\* no other level follows it, a read-only setting when no WithTxOptions
\* follows it; fields no option set are zero unless they are those of the
\* caller's object.  So WithIsolationLevel(l) and WithReadOnly() alone, in
\* either order, yield {Isolation: l, ReadOnly: true}.
C18_OptionsAppliedInOrder ==
    Issued("Begin") # {} =>
        IF version = "config"
        THEN BeginOpts = IF args = <<>> \/ args[1].TxOptions = NilRef
                         THEN <<>> ELSE <<callerOpts>>
        ELSE
            LET last == Last(Given("WithTxOptions"))
                baseNil == last = 0 \/ args[last].ref = NilRef
                levels == {k \in Given("WithIsolationLevel") : k > last}
                readOnly == {k \in Given("WithReadOnly") : k > last}
            IN  /\ BeginOpts = <<>> <=> (baseNil /\ levels = {} /\ readOnly = {})
                /\ ~baseNil => BeginOpts = <<callerOpts>>
                /\ BeginOpts # <<>> =>
                    /\ levels # {} =>
                          BeginOpts[1].Isolation = args[Last(levels)].level
                    /\ readOnly # {} => BeginOpts[1].ReadOnly
                    /\ (baseNil /\ levels = {}) => BeginOpts[1].Isolation = 0
                    /\ (baseNil /\ readOnly = {}) => ~BeginOpts[1].ReadOnly

\* C18 witness: begin was issued in a call given WithReadOnly() and then
\* WithIsolationLevel(l) with l not the default level.
C18_Witness ==
    /\ Issued("Begin") # {}
    /\ version = "options"
    /\ Len(args) = 2
    /\ args[1] = OptReadOnly
    /\ args[2].name = "WithIsolationLevel" /\ args[2].level # 0
    /\ BeginOpts = << [Isolation |-> args[2].level, ReadOnly |-> TRUE] >>

TxOp(name, handle, out) == [op |-> name, tx |-> handle, out |-> out]

\* what the driver answers, and how a unit of work ends, in the concurrent runs
ConcAnswers == {NilErr, NewError("driver: bad connection")}
ConcReturns == { <<1, NilErr>>, <<Zero, NewError("test error")>> }
ConcPayloads == {"boom"}

\* the handle a call would use if tx were shared by the calls: the one begun last
TxShared(c) == db.next - 1

\* the transaction handle of a call: its local variable tx
TxOf(c) == calls[c].tx

ConcInit ==
    /\ calls = NoCalls
    /\ db = NoTx
    /\ version = "options"
    /\ panicnil = FALSE
    /\ callerOpts = ZeroTxOptions
    /\ pc = "idle"
    /\ entry = "none"
    /\ ctx = "none"
    /\ args = <<>>
    /\ freshOpts = ZeroTxOptions
    /\ config = ZeroConfig
    /\ tx = 0
    /\ result = Zero
    /\ err = NilErr
    /\ panicking = NoPanic
    /\ unit = NoUnit
    /\ ops = <<>>
    /\ ret = NoRet

\* caller c enters ExecuteContext, with or without WithDeallocateAll()
ConcExecuteContext(c) ==
    /\ calls[c].pc = "idle"
    /\ \E cleanup \in BOOLEAN :
        calls' = [calls EXCEPT ![c].pc = "begin", ![c].cleanup = cleanup]
    /\ UNCHANGED << db, callVars >>

\* tx, err := db.BeginTxx(ctx, config.TxOptions) in the call of c
ConcBegin(c) ==
    /\ calls[c].pc = "begin"
    /\ \E beginErr \in ConcAnswers :
        IF beginErr # NilErr
        THEN /\ calls' = [calls EXCEPT
                    ![c].ops = Append(@, TxOp("Begin", 0, beginErr)),
                    ![c].err = BeginFailed(beginErr),
                    ![c].ret = Returned(calls[c].result, BeginFailed(beginErr)),
                    ![c].pc = "done"]
             /\ db' = db
        ELSE /\ calls' = [calls EXCEPT
                    ![c].ops = Append(@, TxOp("Begin", db.next, beginErr)),
                    ![c].tx = db.next,
                    ![c].err = NilErr,
                    ![c].pc = IF calls[c].cleanup THEN "dealloc" ELSE "run"]
             /\ db' = [db EXCEPT !.next = @ + 1]
    /\ UNCHANGED callVars

\* the cleanup statement in the call of c, on the call's transaction
ConcDeallocateAll(c) ==
    /\ calls[c].pc = "dealloc"
    /\ \E deallocErr \in ConcAnswers :
        IF deallocErr # NilErr
        THEN \E rollbackErr \in ConcAnswers :
            calls' = [calls EXCEPT
                ![c].ops = @ \o << TxOp("DeallocateAll", TxOf(c), deallocErr),
                                   TxOp("Rollback", TxOf(c), rollbackErr) >>,
                ![c].err = AfterDeallocFailure(deallocErr, rollbackErr),
                ![c].ret = Returned(calls[c].result,
                                    AfterDeallocFailure(deallocErr, rollbackErr)),
                ![c].pc = "done"]
        ELSE
            calls' = [calls EXCEPT
                ![c].ops = Append(@, TxOp("DeallocateAll", TxOf(c), deallocErr)),
                ![c].pc = "run"]
    /\ UNCHANGED << db, callVars >>

\* result, err = txFunc(tx) in the call of c: the unit of work receives the
\* call's transaction and returns
ConcTxFuncReturns(c) ==
    /\ calls[c].pc = "run"
    /\ \E r \in ConcReturns :
        calls' = [calls EXCEPT
            ![c].ops = Append(@, TxOp("TxFunc", TxOf(c), NilErr)),
            ![c].result = r[1],
            ![c].err = r[2],
            ![c].unit = [kind |-> "return", result |-> r[1], err |-> r[2],
                         payload |-> NoPanic],
            ![c].pc = "deferred"]
    /\ UNCHANGED << db, callVars >>

\* txFunc(tx) in the call of c panicking
ConcTxFuncPanics(c) ==
    /\ calls[c].pc = "run"
    /\ \E p \in ConcPayloads :
        calls' = [calls EXCEPT
            ![c].ops = Append(@, TxOp("TxFunc", TxOf(c), NilErr)),
            ![c].panicking = Raised(p),
            ![c].unit = [kind |-> "panic", result |-> Zero, err |-> NilErr,
                         payload |-> Raised(p)],
            ![c].pc = "deferred"]
    /\ UNCHANGED << db, callVars >>

\* recover() in the deferred function of the call of c
ConcRecover(c) ==
    IF calls[c].panicking = NoPanic THEN NilPayload ELSE calls[c].panicking

\* the panic arm of the deferred function of the call of c
ConcDeferredPanic(c) ==
    /\ calls[c].pc = "deferred"
    /\ ConcRecover(c) # NilPayload
    /\ \E rollbackErr \in ConcAnswers :
        calls' = [calls EXCEPT
            ![c].ops = Append(@, TxOp("Rollback", TxOf(c), rollbackErr)),
            ![c].ret = Panicked(ConcRecover(c)),
            ![c].pc = "done"]
    /\ UNCHANGED << db, callVars >>

\* the rollback arm of the deferred function of the call of c, and the return
ConcDeferredRollback(c) ==
    /\ calls[c].pc = "deferred"
    /\ ConcRecover(c) = NilPayload
    /\ calls[c].err # NilErr
    /\ \E rollbackErr \in ConcAnswers :
        calls' = [calls EXCEPT
            ![c].ops = Append(@, TxOp("Rollback", TxOf(c), rollbackErr)),
            ![c].err = AfterRollback(rollbackErr, @),
            ![c].panicking = NoPanic,
            ![c].ret = Returned(calls[c].result,
                                AfterRollback(rollbackErr, calls[c].err)),
            ![c].pc = "done"]
    /\ UNCHANGED << db, callVars >>

\* the commit arm of the deferred function of the call of c, and the return
ConcDeferredCommit(c) ==
    /\ calls[c].pc = "deferred"
    /\ ConcRecover(c) = NilPayload
    /\ calls[c].err = NilErr
    /\ \E commitErr \in ConcAnswers :
        calls' = [calls EXCEPT
            ![c].ops = Append(@, TxOp("Commit", TxOf(c), commitErr)),
            ![c].err = AfterCommit(commitErr),
            ![c].panicking = NoPanic,
            ![c].ret = Returned(calls[c].result, AfterCommit(commitErr)),
            ![c].pc = "done"]
    /\ UNCHANGED << db, callVars >>

ConcNext ==
    \E c \in Callers :
        \/ ConcExecuteContext(c)
        \/ ConcBegin(c)
        \/ ConcDeallocateAll(c)
        \/ ConcTxFuncReturns(c)
        \/ ConcTxFuncPanics(c)
        \/ ConcDeferredPanic(c)
        \/ ConcDeferredRollback(c)
        \/ ConcDeferredCommit(c)

ConcSpec == ConcInit /\ [][ConcNext]_vars


\* the handle the begin of caller c returned, 0 when it has begun none
Begun(c) ==
    IF calls[c].ops # <<>> /\ calls[c].ops[1].op = "Begin" /\ calls[c].ops[1].out = NilErr
    THEN calls[c].ops[1].tx
    ELSE 0

\* the positions in the log of caller c at which operation name was issued
IssuedBy(c, name) == {i \in DOMAIN calls[c].ops : calls[c].ops[i].op = name}

====
